---- MODULE Spec2Model ----
(***************************************************************************)
(* Model of server.js: the Twilio WhatsApp webhook that routes text and    *)
(* image messages, asks iNaturalist for computer-vision suggestions,       *)
(* optionally creates an observation, and answers through "Iara".          *)
(*                                                                         *)
(* Strings are sequences of non-empty pieces, so that the empty string is  *)
(* the empty sequence and concatenation is \o.  Scores are in thousandths  *)
(* (0.85 is 850).  Every request is suspended at one of the awaits of the  *)
(* code; an action runs the code from one await to the next.               *)
(***************************************************************************)
EXTENDS Integers, Sequences, FiniteSets, TLC

\* ------------------------------------------------------------------ bounds
MaxResults == 2
MaxContentLen == 2
MaxMedia == 2

\* --------------------------------------------------------------- constants
HIGH_CONFIDENCE == 850

Requests == {1, 2}

VARIABLES
  req,            \* per request: the locals of app.post / handleImage / handleText
  files,          \* the files under TMP_DIR: [name, image], image the request whose media it holds
  records,        \* observations that exist on iNaturalist
  uuids,          \* number of uuidv4() values drawn so far
  inbound,        \* the requests Twilio posts in this run
  INAT_TOKEN,     \* TRUE iff the environment sets a non-empty INAT_TOKEN
  OPENAI_API_KEY  \* TRUE iff the environment sets a non-empty OPENAI_API_KEY

vars == <<req, files, records, uuids, inbound, INAT_TOKEN, OPENAI_API_KEY>>

\* ----------------------------------------------------------------- strings
SP == " "

Chars == {SP, "x"}

RECURSIVE TrimStart(_)
TrimStart(s) ==
  IF s # <<>> /\ Head(s) = SP THEN TrimStart(Tail(s)) ELSE s

RECURSIVE TrimEnd(_)
TrimEnd(s) ==
  IF s # <<>> /\ s[Len(s)] = SP THEN TrimEnd(SubSeq(s, 1, Len(s) - 1)) ELSE s

Trim(s) == TrimEnd(TrimStart(s))

\* Mutant: the last character of the prefix is not compared.
StartsWithAllButLast(s, prefix) ==
  /\ Len(s) >= Len(prefix) - 1
  /\ SubSeq(s, 1, Len(prefix) - 1) = SubSeq(prefix, 1, Len(prefix) - 1)

StartsWith(s, prefix) ==
  /\ Len(s) >= Len(prefix)
  /\ SubSeq(s, 1, Len(prefix)) = prefix

SeqsUpTo(S, n) == UNION {[1..k -> S] : k \in 0..n}

\* ---------------------------------------------------------- fixed messages
Apology == <<"Ops! Tive um probleminha aqui. Pode tentar de novo?">>

Unsupported == <<"Recebi um anexo, mas por enquanto so aceito imagens">>

CouldNotIdentify ==
  <<"Nao consegui identificar com seguranca a partir da imagem. Sugira tentar outra foto, angulo ou enviar localizacao.">>

OfferLater ==
  <<"\n\nSe quiser, posso registrar como observacao no iNaturalist quando voce desejar.">>

RegisteredPrefix == "\n\nRegistrei como observacao no iNaturalist: "

LeafMark == "LEAF "

SproutMark == "SPROUT "

\* ------------------------------------------------------------ webhook body
ImagePrefix == <<"i", "m", "a", "g", "e", "/">>

ContentTypes ==
  { ImagePrefix \o <<"j", "p", "e", "g">>,
    <<"a", "u", "d", "i", "o", "/", "o", "g", "g">>,
    <<"i", "m", "a", "g", "e">>,
    <<>> }

Bodies == { <<>>, <<SP, "x">> }

\* req.body as the handler reads it: Number(NumMedia || 0),
\* MediaContentType0 || "", Body || "".
Messages == [NumMedia : 0..MaxMedia, MediaContentType0 : ContentTypes, Body : Bodies]

\* Mutant: numMedia >= 0 for numMedia > 0.
RouteMediaGe0(m) ==
  IF m.NumMedia >= 0
    THEN IF StartsWith(m.MediaContentType0, ImagePrefix) THEN "image" ELSE "unsupported"
    ELSE "text"

\* The branch app.post takes (lines 301-321).
Route(m) ==
  IF m.NumMedia > 0
    THEN IF StartsWith(m.MediaContentType0, ImagePrefix) THEN "image" ELSE "unsupported"
    ELSE "text"

\* ------------------------------------------------- recognition service data
Taxa ==
  { [id |-> 7, name |-> "Puma concolor", preferred_common_name |-> "onca-parda"],
    [id |-> 9, name |-> "Bidens pilosa"],
    [name |-> "Aves"] }

Scores == {600, 850, 910}

\* A result entry; the score may be missing.
Candidates == [taxon : Taxa, score : Scores] \cup [taxon : Taxa]

ResultLists == SeqsUpTo(Candidates, MaxResults)

HasScore(c) == "score" \in DOMAIN c

\* (x.score || 0)
SortKey(c) == IF HasScore(c) THEN c.score ELSE 0

\* Array.prototype.sort is stable: an entry goes after those that compare
\* less than or equal to it under (a, b) => (b.score || 0) - (a.score || 0).
RECURSIVE InsertByScore(_, _)
InsertByScore(sorted, c) ==
  IF sorted = <<>> THEN <<c>>
  ELSE IF SortKey(c) - SortKey(Head(sorted)) > 0 THEN <<c>> \o sorted
  ELSE <<Head(sorted)>> \o InsertByScore(Tail(sorted), c)

RECURSIVE SortedFrom(_, _)
SortedFrom(sorted, rest) ==
  IF rest = <<>> THEN sorted
  ELSE SortedFrom(InsertByScore(sorted, Head(rest)), Tail(rest))

\* Mutant: the comparator (a, b) => (a.score || 0) - (b.score || 0).
RECURSIVE InsertByScoreAsc(_, _)
InsertByScoreAsc(sorted, c) ==
  IF sorted = <<>> THEN <<c>>
  ELSE IF SortKey(Head(sorted)) - SortKey(c) > 0 THEN <<c>> \o sorted
  ELSE <<Head(sorted)>> \o InsertByScoreAsc(Tail(sorted), c)

RECURSIVE SortedFromAsc(_, _)
SortedFromAsc(sorted, rest) ==
  IF rest = <<>> THEN sorted
  ELSE SortedFromAsc(InsertByScoreAsc(sorted, Head(rest)), Tail(rest))

SortByScoreAsc(results) == SortedFromAsc(<<>>, results)

SortByScoreDesc(results) == SortedFrom(<<>>, results)

CvResponses ==
  { [kind |-> "error"], [kind |-> "noarray"] }
    \cup { [kind |-> "results", results |-> l] : l \in ResultLists }

\* getINatSuggestions' return value for a response that arrived
getINatSuggestions(resp) ==
  IF resp.kind = "results" THEN SortByScoreDesc(resp.results) ELSE <<>>

\* ------------------------------------------------------------- formatTaxon
formatTaxon(taxon) ==
  LET sci == IF "name" \in DOMAIN taxon THEN <<taxon.name>> ELSE <<>>
      common ==
        IF "preferred_common_name" \in DOMAIN taxon
          THEN <<taxon.preferred_common_name>>
        ELSE IF "english_common_name" \in DOMAIN taxon
          THEN <<taxon.english_common_name>>
        ELSE IF "preferred_common_name_localized" \in DOMAIN taxon
          THEN <<taxon.preferred_common_name_localized>>
        ELSE <<>>
  IN  IF common # <<>> THEN common \o <<" (">> \o sci \o <<")">> ELSE sci

\* (score * 100).toFixed(0), the score in thousandths
Percent(score) == ToString((score + 5) \div 10)

\* ---------------------------------------------------------- decision policy
\* top?.score ?? 0
TopScore(suggestions) ==
  IF HasScore(suggestions[1]) THEN suggestions[1].score ELSE 0

\* top?.taxon?.id, 0 when there is none (both are falsy)
TopTaxonId(suggestions) ==
  IF "taxon" \in DOMAIN suggestions[1] /\ "id" \in DOMAIN suggestions[1].taxon
    THEN suggestions[1].taxon.id
    ELSE 0

\* Mutant: the identifier test of line 258 dropped.
ShouldRegisterNoIdCheck(suggestions) ==
  TopScore(suggestions) >= HIGH_CONFIDENCE

\* Mutant: the threshold test of line 258 dropped.
ShouldRegisterAnyScore(suggestions) ==
  TopTaxonId(suggestions) # 0

ShouldRegister(suggestions) ==
  TopScore(suggestions) >= HIGH_CONFIDENCE /\ TopTaxonId(suggestions) # 0

\* ------------------------------------------------------------ reply text
ObservationUrl(observationId) ==
  <<"https://www.inaturalist.org/observations/", ToString(observationId)>>

PrimaryLine(suggestions) ==
  <<"Minha sugestao e: ">> \o formatTaxon(suggestions[1].taxon)
    \o <<". (confianca ~", Percent(TopScore(suggestions)), "%)">>

SecondaryLine(second) ==
  <<"\nOutra possibilidade: ">> \o formatTaxon(second.taxon)
    \o <<" (~", Percent(second.score), "%).">>

\* Mutant: the offer appended whatever obsUrl is.
RegistrationTailAlwaysOffer(obsUrl) == OfferLater

RegistrationTail(obsUrl) ==
  IF obsUrl # <<>> THEN <<RegisteredPrefix>> \o obsUrl ELSE OfferLater

\* Mutant: the secondary line only from the third candidate on.
BaseMsgMoreThanTwo(suggestions, obsUrl) ==
  PrimaryLine(suggestions)
    \o (IF Len(suggestions) > 2 /\ HasScore(suggestions[2])
          THEN SecondaryLine(suggestions[2]) ELSE <<>>)
    \o RegistrationTail(obsUrl)

BaseMsg(suggestions, obsUrl) ==
  PrimaryLine(suggestions)
    \o (IF Len(suggestions) >= 2 /\ HasScore(suggestions[2])
          THEN SecondaryLine(suggestions[2]) ELSE <<>>)
    \o RegistrationTail(obsUrl)

TextPrompt(text) ==
  <<"Mensagem do usuario: \"">> \o text
    \o <<"\". Responda acolhedor e convide a pessoa a enviar foto de planta/animal e localizacao.">>

\* -------------------------------------------------------------------- Iara
IaraResponses ==
  { [kind |-> "error"], [kind |-> "nocontent"], [kind |-> "nonstring"] }
    \cup { [kind |-> "content", content |-> c] : c \in SeqsUpTo(Chars, MaxContentLen) }

\* What an async function hands its caller: a value, or a throw.
Returned(value) == [thrown |-> FALSE, value |-> value]

Thrown == [thrown |-> TRUE, value |-> <<>>]

\* Mutant: the marker of line 177 used for the fallback.
LiteralSprout(prompt) == <<SproutMark>> \o prompt

\* The template of lines 156 and 180.
Literal(prompt) == <<LeafMark>> \o prompt

\* askIara without a key (lines 155-157)
AskIaraNoKey(prompt) == Returned(Literal(prompt))

\* Mutant: line 177 without its "|| prompt" fallback.
AskIaraReplyNoFallback(prompt, resp) ==
  CASE resp.kind = "error" -> Returned(Literal(prompt))
    [] resp.kind = "nonstring" -> Returned(Literal(prompt))
    [] resp.kind = "nocontent" -> Returned(<<SproutMark>> \o prompt)
    [] OTHER -> Returned(Trim(resp.content))

\* Mutant: askIara without the try/catch of lines 158 and 178.
AskIaraReplyRethrow(prompt, resp) ==
  CASE resp.kind = "error" -> Thrown
    [] resp.kind = "nonstring" -> Thrown
    [] resp.kind = "nocontent" -> Returned(<<SproutMark>> \o prompt)
    [] OTHER ->
         IF Trim(resp.content) # <<>> THEN Returned(Trim(resp.content))
         ELSE Returned(<<SproutMark>> \o prompt)

\* askIara once the completion call has returned or thrown (lines 177-181):
\* an axios error and the TypeError of .trim() on a non-string are both
\* caught by the catch of line 178.
AskIaraReply(prompt, resp) ==
  CASE resp.kind = "error" -> Returned(Literal(prompt))
    [] resp.kind = "nonstring" -> Returned(Literal(prompt))
    [] resp.kind = "nocontent" -> Returned(<<SproutMark>> \o prompt)
    [] OTHER ->
         IF Trim(resp.content) # <<>> THEN Returned(Trim(resp.content))
         ELSE Returned(<<SproutMark>> \o prompt)

\* ------------------------------------------------------------ request state
\* pc is the await the request is suspended at:
\*   idle          not received yet
\*   await_get     await axios(axiosOpts)                  (downloadImageToFile)
\*   await_pipe    await new Promise(... pipe ...)         (downloadImageToFile)
\*   await_cv      await axios.post(score_image)           (getINatSuggestions)
\*   await_create  await axios.post(observations)          (createINatObservationWithPhoto)
\*   await_attach  await axios.post(observation_photos)    (createINatObservationWithPhoto)
\*   await_iara    await axios.post(chat/completions)      (askIara)
\*   responded     res.send was called
\* calls is the log of what the request invoked, each entry with its outcome;
\* results is data.results as the recognition service sent it; sent is the
\* image each multipart call read from the temp file ([op, image], image 0
\* when no file of that name existed).
NoRequest ==
  [ pc |-> "idle",
    msg |-> [NumMedia |-> 0, MediaContentType0 |-> <<>>, Body |-> <<>>],
    filename |-> 0, localPath |-> 0, srcAborted |-> FALSE,
    results |-> <<>>, suggestions |-> <<>>, taxon_id |-> 0, observationId |-> 0, obsUrl |-> <<>>,
    prompt |-> <<>>, branch |-> "none", reply |-> <<>>,
    calls |-> <<>>, sent |-> {}, responses |-> 0 ]

Logged(q, op, res) ==
  [q EXCEPT !.calls = Append(@, [op |-> op, res |-> res])]

\* twiml.message(reply); res.type("text/xml").send(twiml.toString())
Respond(q, reply) ==
  [q EXCEPT !.pc = "responded", !.reply = reply, !.responses = @ + 1]

\* The catch of app.post: every throw of the handler ends here.
CatchAll(q) == Respond(q, Apology)

\* What follows askIara's return on each branch: handleText and the
\* zero-candidate branch return the reply; the full branch unlinks first.
AfterIara(q, result) ==
  IF result.thrown THEN CatchAll(q)
  ELSE IF q.branch = "full"
    THEN Respond(Logged(q, "unlink", "called"), result.value)
    ELSE Respond(q, result.value)

\* askIara(prompt) up to its first await, then the rest of the branch
AskIara(q, prompt, branch) ==
  LET q1 == [q EXCEPT !.prompt = prompt, !.branch = branch]
  IN  IF ~OPENAI_API_KEY
        THEN AfterIara(q1, AskIaraNoKey(prompt))
        ELSE [q1 EXCEPT !.pc = "await_iara"]

\* Mutant: the download wrapped in a try/catch like the recognition call,
\* so that handleImage goes on to getINatSuggestions.
DownloadFailedSwallowed(q) == [q EXCEPT !.pc = "await_cv"]

\* downloadImageToFile throws at line 232: nothing in handleImage catches it.
DownloadFailed(q) == CatchAll(q)

\* Step 5 of handleImage: craft the reply text and hand it to askIara.
Compose(q, obsUrl) ==
  AskIara([q EXCEPT !.obsUrl = obsUrl], BaseMsg(q.suggestions, obsUrl), "full")

\* Mutant: the name taken from the number of files on disk.
FilenameByCount == Cardinality(files) + 1

\* path.join(TMP_DIR, `${uuidv4()}.jpg`): a name no earlier call was given.
NewFilename == uuids + 1

\* fs.createWriteStream(filename) with the response piped into it: a file of
\* that name is created, or truncated, and holds the image of request r.
Written(name, r) ==
  { f \in files : f.name # name } \cup { [name |-> name, image |-> r] }

\* What fs.createReadStream(imagePath) reads: the image in the file of that
\* name, 0 when there is none.
ImageAt(name) ==
  IF \E f \in files : f.name = name
    THEN (CHOOSE f \in files : f.name = name).image
    ELSE 0

\* form.append("image" / "file", fs.createReadStream(imagePath))
Sending(q, op) ==
  [q EXCEPT !.sent = @ \cup { [op |-> op, image |-> ImageAt(q.localPath)] }]

\* fs.unlink(localPath) of the full branch, when the step ended the request
FilesAfter(q) ==
  IF q.pc = "responded" /\ q.calls # <<>> /\ q.calls[Len(q.calls)].op = "unlink"
    THEN { f \in files : f.name # q.localPath }
    ELSE files

\* Mutant: no try/catch around the registration.
RegistrationFailedRethrow(q) == CatchAll(q)

\* The catch of lines 268-270: obsUrl stays null and handleImage goes on.
RegistrationFailed(q) == Compose(q, <<>>)

\* From the suggestions to the next await (lines 246-271).
\* Mutant: the credential test of line 115 left out.
TokenCheckSkipped == FALSE

\* The test at the head of createINatObservationWithPhoto: without the
\* credential it throws before any request is built.
TokenMissing == ~INAT_TOKEN

Decide(q) ==
  IF q.suggestions = <<>>
    THEN AskIara(q, CouldNotIdentify, "nocand")
  ELSE IF ShouldRegister(q.suggestions)
    THEN LET q1 == [q EXCEPT !.taxon_id = TopTaxonId(q.suggestions)]
         IN  IF TokenMissing
               THEN RegistrationFailed(Logged(q1, "register", "notoken"))
               ELSE [Logged(q1, "register", "started") EXCEPT !.pc = "await_create"]
  ELSE Compose(q, <<>>)

\* Mutant: no try/catch around the recognition call.
AfterCvRethrow(q, resp) ==
  IF resp.kind = "error"
    THEN CatchAll([Logged(q, "cv", "error") EXCEPT !.suggestions = <<>>])
    ELSE Decide([Logged(q, "cv", "ok") EXCEPT
                   !.results = IF resp.kind = "results" THEN resp.results ELSE <<>>,
                   !.suggestions = getINatSuggestions(resp)])

\* Lines 239-244 once the recognition call has returned or thrown: a throw
\* is caught and leaves suggestions empty.
AfterCv(q, resp) ==
  IF resp.kind = "error"
    THEN Decide([Logged(q, "cv", "error") EXCEPT !.suggestions = <<>>])
    ELSE Decide([Logged(q, "cv", "ok") EXCEPT
                   !.results = IF resp.kind = "results" THEN resp.results ELSE <<>>,
                   !.suggestions = getINatSuggestions(resp)])

\* Mutant: line 134's test of the id missing.
AfterCreateNoIdCheck(q, res, id) ==
  IF res \in {"ok", "noid"}
    THEN [Logged(q, "create", res) EXCEPT !.pc = "await_attach", !.observationId = id]
    ELSE RegistrationFailed(Logged(q, "create", res))

\* Lines 131-142 once POST /observations has returned or thrown: with an
\* id the photo is posted; a throw, or an answer without an id (line 134),
\* leaves createINatObservationWithPhoto by a throw.
AfterCreate(q, res, id) ==
  IF res = "ok"
    THEN [Sending(Logged(q, "create", "ok"), "attach") EXCEPT
            !.pc = "await_attach", !.observationId = id]
    ELSE RegistrationFailed(Logged(q, "create", res))

\* observation_photo[observation_id] of line 139
AttachTarget(q) == q.observationId

\* Mutant: the record deleted again when the photo could not be attached.
RecordsRolledBack(q) == { o \in records : o.id # q.observationId }

\* The registration service after a failed attach: the catch of line 268
\* only logs, no call undoes the create of line 131.
RecordsAfterAttachFailure(q) == records

\* The record id the registration service gives the request's observation.
NewObservationId(r) == 100 + r

\* ------------------------------------------------------------------ actions
\* After startup: no request yet, an empty TMP_DIR, and the environment's
\* credentials either set or not.  One message is posted in a run; requests
\* share nothing but TMP_DIR and the remote services.
Init ==
  /\ req = [r \in Requests |-> NoRequest]
  /\ files = {}
  /\ records = {}
  /\ uuids = 0
  /\ inbound = {1}
  /\ INAT_TOKEN \in BOOLEAN
  /\ OPENAI_API_KEY \in BOOLEAN

Set(r, q) == req' = [req EXCEPT ![r] = q]

\* app.post("/whatsapp") up to the first await.
Receive(r) ==
  /\ r \in inbound
  /\ req[r].pc = "idle"
  /\ \E m \in Messages :
       LET q == [req[r] EXCEPT !.msg = m]
           text == Trim(m.Body)
       IN  CASE Route(m) = "image" ->
                  /\ Set(r, [q EXCEPT !.pc = "await_get", !.filename = NewFilename])
                  /\ uuids' = uuids + 1
             [] Route(m) = "unsupported" ->
                  /\ Set(r, Respond(q, Unsupported))
                  /\ UNCHANGED uuids
             [] OTHER ->
                  /\ Set(r, AskIara(q, TextPrompt(text), "text"))
                  /\ UNCHANGED uuids
  /\ UNCHANGED <<files, records, inbound, INAT_TOKEN, OPENAI_API_KEY>>

\* axios(axiosOpts) resolves with the response stream: the write stream is
\* created and the response piped into it.
GetResolves(r) ==
  /\ req[r].pc = "await_get"
  /\ Set(r, [Logged(req[r], "get", "ok") EXCEPT !.pc = "await_pipe"])
  /\ files' = Written(req[r].filename, r)
  /\ UNCHANGED <<records, uuids, inbound, INAT_TOKEN, OPENAI_API_KEY>>

\* axios(axiosOpts) rejects (network or auth failure).
GetRejects(r) ==
  /\ req[r].pc = "await_get"
  /\ Set(r, DownloadFailed(Logged(req[r], "get", "error")))
  /\ UNCHANGED <<files, records, uuids, inbound, INAT_TOKEN, OPENAI_API_KEY>>

\* w emits "finish": downloadImageToFile returns, getINatSuggestions posts.
PipeFinishes(r) ==
  /\ req[r].pc = "await_pipe"
  /\ ~req[r].srcAborted
  /\ Set(r, [Sending([Logged(req[r], "pipe", "ok") EXCEPT
                         !.localPath = req[r].filename], "cv") EXCEPT
               !.pc = "await_cv"])
  /\ UNCHANGED <<files, records, uuids, inbound, INAT_TOKEN, OPENAI_API_KEY>>

\* w emits "error": the promise rejects.
PipeWriteError(r) ==
  /\ req[r].pc = "await_pipe"
  /\ ~req[r].srcAborted
  /\ Set(r, DownloadFailed(Logged(req[r], "pipe", "error")))
  /\ UNCHANGED <<files, records, uuids, inbound, INAT_TOKEN, OPENAI_API_KEY>>

\* The response stream res.data fails before its end: pipe does not end w,
\* w emits neither "finish" nor "error", and nothing listens on res.data.
PipeSourceAborts(r) ==
  /\ req[r].pc = "await_pipe"
  /\ ~req[r].srcAborted
  /\ Set(r, [Logged(req[r], "pipe", "aborted") EXCEPT !.srcAborted = TRUE])
  /\ UNCHANGED <<files, records, uuids, inbound, INAT_TOKEN, OPENAI_API_KEY>>

\* The recognition call returns or throws; handleImage runs on to the next await.
CvReturns(r) ==
  /\ req[r].pc = "await_cv"
  /\ \E resp \in CvResponses :
       LET q2 == AfterCv(req[r], resp)
       IN  /\ [op |-> "cv", image |-> 0] \in req[r].sent => resp.kind = "error"
           /\ Set(r, q2)
           /\ files' = FilesAfter(q2)
  /\ UNCHANGED <<records, uuids, inbound, INAT_TOKEN, OPENAI_API_KEY>>

\* POST /observations returns an id: the record exists, the photo is posted.
CreateSucceeds(r) ==
  /\ req[r].pc = "await_create"
  /\ Set(r, AfterCreate(req[r], "ok", NewObservationId(r)))
  /\ records' = records \cup
       { [ id |-> NewObservationId(r), request |-> r,
           taxon_id |-> req[r].taxon_id, photo |-> FALSE ] }
  /\ UNCHANGED <<files, uuids, inbound, INAT_TOKEN, OPENAI_API_KEY>>

\* POST /observations throws, or answers without an id: caught at line 268.
CreateFails(r) ==
  /\ req[r].pc = "await_create"
  /\ \E res \in {"error", "noid"} :
       LET q2 == AfterCreate(req[r], res, 0)
       IN  /\ Set(r, q2)
           /\ files' = FilesAfter(q2)
  /\ UNCHANGED <<records, uuids, inbound, INAT_TOKEN, OPENAI_API_KEY>>

\* POST /observation_photos returns: created.url becomes obsUrl.
AttachSucceeds(r) ==
  /\ req[r].pc = "await_attach"
  /\ [op |-> "attach", image |-> 0] \notin req[r].sent
  /\ LET q2 == Compose(Logged(req[r], "attach", "ok"),
                       ObservationUrl(req[r].observationId))
     IN  /\ Set(r, q2)
         /\ files' = FilesAfter(q2)
  /\ records' =
       { IF o.id = AttachTarget(req[r]) THEN [o EXCEPT !.photo = TRUE] ELSE o :
           o \in records }
  /\ UNCHANGED <<uuids, inbound, INAT_TOKEN, OPENAI_API_KEY>>

\* POST /observation_photos throws: caught at line 268, obsUrl stays null.
AttachFails(r) ==
  /\ req[r].pc = "await_attach"
  /\ LET q2 == RegistrationFailed(Logged(req[r], "attach", "error"))
     IN  /\ Set(r, q2)
         /\ files' = FilesAfter(q2)
  /\ records' = RecordsAfterAttachFailure(req[r])
  /\ UNCHANGED <<uuids, inbound, INAT_TOKEN, OPENAI_API_KEY>>

\* The completion call returns or throws; the branch runs to res.send.
IaraReturns(r) ==
  /\ req[r].pc = "await_iara"
  /\ \E resp \in IaraResponses :
       LET q2 == AfterIara(Logged(req[r], "iara", resp.kind),
                           AskIaraReply(req[r].prompt, resp))
       IN  /\ Set(r, q2)
           /\ files' = FilesAfter(q2)
  /\ UNCHANGED <<records, uuids, inbound, INAT_TOKEN, OPENAI_API_KEY>>

Step(r) ==
  \/ Receive(r)
  \/ GetResolves(r)
  \/ GetRejects(r)
  \/ PipeFinishes(r)
  \/ PipeWriteError(r)
  \/ PipeSourceAborts(r)
  \/ CvReturns(r)
  \/ CreateSucceeds(r)
  \/ CreateFails(r)
  \/ AttachSucceeds(r)
  \/ AttachFails(r)
  \/ IaraReturns(r)

Next == \E r \in Requests : Step(r)

Spec == Init /\ [][Next]_vars

\* Every pending external call eventually returns or fails, and the event
\* loop runs every continuation that is ready.
FairSpec == Spec /\ \A r \in Requests : WF_vars(Step(r))

\* Two webhook deliveries in flight together: Express starts a handler for
\* each, and each runs from one await to the next among the other's steps.
ConcInit ==
  /\ req = [r \in Requests |-> NoRequest]
  /\ files = {}
  /\ records = {}
  /\ uuids = 0
  /\ inbound = Requests
  /\ INAT_TOKEN \in BOOLEAN
  /\ OPENAI_API_KEY \in BOOLEAN

\* The deliveries of the concurrent runs: one JPEG each without a caption,
\* recognised as nothing or as one qualifying candidate, the completion
\* call failing or answering without content.
ConcInput ==
  \A r \in Requests :
    LET q == req[r]
    IN  q.pc # "idle" =>
          /\ q.msg = [NumMedia |-> 1,
                      MediaContentType0 |-> ImagePrefix \o <<"j", "p", "e", "g">>,
                      Body |-> <<>>]
          /\ q.results \in { <<>>,
                << [taxon |-> [id |-> 9, name |-> "Bidens pilosa"], score |-> 910] >> }
          /\ \A i \in DOMAIN q.calls :
               q.calls[i].op = "iara" => q.calls[i].res \in {"error", "nocontent"}

ConcNext == Next /\ ConcInput'

ConcSpec == ConcInit /\ [][ConcNext]_vars

\* ------------------------------------------------------------ observation
\* What a request has invoked so far, finished or still awaited.
Ops(q) == { q.calls[i].op : i \in DOMAIN q.calls }

Results(q, op) == { q.calls[i].res : i \in { j \in DOMAIN q.calls : q.calls[j].op = op } }

Count(q, op) == Cardinality({ i \in DOMAIN q.calls : q.calls[i].op = op })

Awaited(q) ==
  CASE q.pc = "await_get" -> {"get"}
    [] q.pc = "await_pipe" -> {"pipe"}
    [] q.pc = "await_cv" -> {"cv"}
    [] q.pc = "await_create" -> {"create"}
    [] q.pc = "await_attach" -> {"attach"}
    [] q.pc = "await_iara" -> {"iara"}
    [] OTHER -> {}

Made(q) == Ops(q) \cup Awaited(q)

RecordsOf(r) == { o \in records : o.request = r }

\* The top candidate qualifies: it has a score of at least the threshold and
\* its taxon has an id.
TopQualifies(s) ==
  /\ Len(s) > 0
  /\ "score" \in DOMAIN s[1]
  /\ s[1].score >= HIGH_CONFIDENCE
  /\ "id" \in DOMAIN s[1].taxon

\* What the style pass may return for a prompt when the completion call
\* answers: the trimmed, non-empty content, or the prompt behind the sprout.
StyledReplies(prompt) ==
  { c \in SeqsUpTo(Chars, MaxContentLen) : c # <<>> /\ c[1] # SP /\ c[Len(c)] # SP }
    \cup { <<"SPROUT ">> \o prompt }

\* ------------------------------------------------------------------ claims

\* C1: once the ranked candidates of an image request are known, handleImage
\* has called createINatObservationWithPhoto exactly when the sequence is
\* non-empty, its first entry scores at least the threshold and that entry's
\* taxon has an id; it calls it at most once, with the first entry's taxon
\* id, and never before the candidates are known.
C1_RegistersIffTopQualifies ==
  \A r \in Requests :
    LET q == req[r]
    IN  /\ Count(q, "register") <= 1
        /\ "cv" \notin Ops(q) => Count(q, "register") = 0
        /\ "cv" \in Ops(q) =>
             (Count(q, "register") = 1 <=> TopQualifies(q.suggestions))
        /\ Count(q, "register") = 1 =>
             q.taxon_id = q.suggestions[1].taxon.id

\* A registration attempted for the first of two candidates that both
\* qualify, with different taxa.
C1_Witness ==
  \E r \in Requests :
    LET q == req[r]
    IN  /\ "register" \in Ops(q)
        /\ Len(q.suggestions) = 2
        /\ q.suggestions[1].taxon.id = 9
        /\ "score" \in DOMAIN q.suggestions[2]
        /\ q.suggestions[2].score >= HIGH_CONFIDENCE
        /\ "id" \in DOMAIN q.suggestions[2].taxon
        /\ q.suggestions[2].taxon.id = 7

\* C2: a request creates at most one observation on iNaturalist (one create
\* call at most, one record at most), and a record of a request exists only
\* if the request's top candidate scores at least the threshold.
C2_AtMostOneRecord ==
  \A r \in Requests :
    LET q == req[r]
    IN  /\ Count(q, "create") + Cardinality(Awaited(q) \cap {"create"}) <= 1
        /\ Cardinality(RecordsOf(r)) <= 1
        /\ RecordsOf(r) # {} =>
             /\ Len(q.suggestions) > 0
             /\ "score" \in DOMAIN q.suggestions[1]
             /\ q.suggestions[1].score >= HIGH_CONFIDENCE

\* An answered request whose observation exists.
C2_Witness ==
  \E r \in Requests : req[r].pc = "responded" /\ RecordsOf(r) # {}

\* C3: when downloadImageToFile throws (the GET rejects or the write stream
\* fails), the request is answered with the generic apology and has made no
\* recognition, registration or completion call; a download that stalls
\* makes none of these calls either.
C3_FetchFailureAborts ==
  \A r \in Requests :
    LET q == req[r]
    IN  /\ ("error" \in Results(q, "get") \cup Results(q, "pipe")) =>
             /\ q.pc = "responded"
             /\ q.responses = 1
             /\ q.reply = <<"Ops! Tive um probleminha aqui. Pode tentar de novo?">>
             /\ Made(q) \subseteq {"get", "pipe"}
        /\ q.srcAborted => Made(q) \subseteq {"get", "pipe"}

\* The write stream failed after the GET had succeeded.
C3_Witness ==
  \E r \in Requests :
    /\ "ok" \in Results(req[r], "get")
    /\ "error" \in Results(req[r], "pipe")
    /\ req[r].pc = "responded"

\* The style pass applied to a prompt: the literal text behind the leaf, or
\* what the completion call produced.
ThroughStylePass(reply, prompt) ==
  \/ reply = <<"LEAF ">> \o prompt
  \/ OPENAI_API_KEY /\ reply \in StyledReplies(prompt)

ApologyText == <<"Ops! Tive um probleminha aqui. Pode tentar de novo?">>

\* C4: when the recognition call throws, or answers with no result, the
\* request makes no registration call, its prompt is the fixed "could not
\* identify" text, and its reply is that text through the style pass, not
\* the apology.
C4_NoCandidatesFallback ==
  \A r \in Requests :
    LET q == req[r]
    IN  ("error" \in Results(q, "cv") \/ ("ok" \in Results(q, "cv") /\ q.suggestions = <<>>)) =>
          /\ q.suggestions = <<>>
          /\ Made(q) \cap {"register", "create", "attach"} = {}
          /\ RecordsOf(r) = {}
          /\ q.pc \in {"await_iara", "responded"}
          /\ q.prompt =
               <<"Nao consegui identificar com seguranca a partir da imagem. Sugira tentar outra foto, angulo ou enviar localizacao.">>
          /\ q.pc = "responded" =>
               /\ q.reply # ApologyText
               /\ ThroughStylePass(q.reply, q.prompt)

\* A recognition call that threw, answered through a working style pass.
C4_Witness ==
  \E r \in Requests :
    /\ "error" \in Results(req[r], "cv")
    /\ "content" \in Results(req[r], "iara")
    /\ req[r].pc = "responded"
    /\ req[r].reply = <<"x">>

RegistrationStepFailed(q) ==
  \/ Results(q, "create") \cap {"error", "noid"} # {}
  \/ "error" \in Results(q, "attach")

\* C5: when the create call or the attach call of a registration fails, the
\* request goes on: no URL is kept, the assembled text starts with the line
\* naming the top candidate, ends with the offer to register later and holds
\* no record URL, and the reply is that text through the style pass, not the
\* apology.
C5_RegistrationFailureAbsorbed ==
  \A r \in Requests :
    LET q == req[r]
        n == Len(formatTaxon(q.suggestions[1].taxon))
    IN  RegistrationStepFailed(q) =>
          /\ q.obsUrl = <<>>
          /\ q.pc \in {"await_iara", "responded"}
          /\ q.branch = "full"
          /\ Len(q.prompt) > 1 + n
          /\ SubSeq(q.prompt, 1, 1 + n) =
               <<"Minha sugestao e: ">> \o formatTaxon(q.suggestions[1].taxon)
          /\ q.prompt[Len(q.prompt)] =
               "\n\nSe quiser, posso registrar como observacao no iNaturalist quando voce desejar."
          /\ \A i \in DOMAIN q.prompt :
               q.prompt[i] # "\n\nRegistrei como observacao no iNaturalist: "
          /\ q.pc = "responded" =>
               /\ q.reply # ApologyText
               /\ ThroughStylePass(q.reply, q.prompt)

\* The photo could not be attached to a record that was created, and the
\* request was answered.
C5_Witness ==
  \E r \in Requests :
    /\ "ok" \in Results(req[r], "create")
    /\ "error" \in Results(req[r], "attach")
    /\ RecordsOf(r) # {}
    /\ req[r].pc = "responded"

\* C6: every request that reached the composition of a reply (askIara was
\* called, on the text, zero-candidate or full branch) and was answered has
\* a non-empty reply of non-empty pieces, and was not answered by the catch
\* of app.post: composing raised nothing.
C6_CompositionTotal ==
  \A r \in Requests :
    LET q == req[r]
    IN  (q.pc = "responded" /\ q.branch # "none") =>
          /\ Len(q.reply) > 0
          /\ \A i \in DOMAIN q.reply : q.reply[i] # ""
          /\ q.reply # ApologyText
          /\ q.responses = 1

\* Two candidates, a registered record and a completion call that answered
\* with blanks only.
C6_Witness ==
  \E r \in Requests :
    LET q == req[r]
    IN  /\ q.pc = "responded"
        /\ q.branch = "full"
        /\ Len(q.suggestions) = 2
        /\ q.obsUrl # <<>>
        /\ "content" \in Results(q, "iara")
        /\ q.reply = <<"SPROUT ">> \o q.prompt

\* The text each branch assembles.
AssembledText(q) ==
  CASE q.branch = "text" ->
         <<"Mensagem do usuario: \"">> \o Trim(q.msg.Body)
           \o <<"\". Responda acolhedor e convide a pessoa a enviar foto de planta/animal e localizacao.">>
    [] q.branch = "nocand" ->
         <<"Nao consegui identificar com seguranca a partir da imagem. Sugira tentar outra foto, angulo ou enviar localizacao.">>
    [] OTHER -> BaseMsg(q.suggestions, q.obsUrl)

\* C7: when there is no OPENAI_API_KEY (no completion call is made then), or
\* the completion call throws, or its content is not a string, the reply is
\* the assembled text of the branch behind the leaf marker, unchanged.
C7_LiteralFallback ==
  \A r \in Requests :
    LET q == req[r]
    IN  /\ ~OPENAI_API_KEY => "iara" \notin Made(q)
        /\ ( /\ q.pc = "responded"
             /\ q.branch # "none"
             /\ (~OPENAI_API_KEY \/ Results(q, "iara") \cap {"error", "nonstring"} # {}) ) =>
             q.reply = <<"LEAF ">> \o AssembledText(q)

\* A registered record on the full branch, the completion call failing.
C7_Witness ==
  \E r \in Requests :
    LET q == req[r]
    IN  /\ q.pc = "responded"
        /\ q.branch = "full"
        /\ q.obsUrl # <<>>
        /\ Len(q.suggestions) = 2
        /\ "error" \in Results(q, "iara")

IsImageType(ct) ==
  /\ Len(ct) >= 6
  /\ ct[1] = "i" /\ ct[2] = "m" /\ ct[3] = "a" /\ ct[4] = "g" /\ ct[5] = "e" /\ ct[6] = "/"

\* C8: a received message with media whose first attachment's content type
\* does not start with "image/" is answered at once with the fixed
\* "unsupported attachment" text, and no download, recognition, registration
\* or completion call is made for it.
C8_NonImageAttachment ==
  \A r \in Requests :
    LET q == req[r]
    IN  (q.pc # "idle" /\ q.msg.NumMedia > 0 /\ ~IsImageType(q.msg.MediaContentType0)) =>
          /\ q.pc = "responded"
          /\ q.responses = 1
          /\ q.reply = <<"Recebi um anexo, mas por enquanto so aceito imagens">>
          /\ Made(q) = {}
          /\ q.branch = "none"

\* An audio attachment, answered.
C8_Witness ==
  \E r \in Requests :
    /\ req[r].pc = "responded"
    /\ req[r].msg.NumMedia > 0
    /\ req[r].msg.MediaContentType0 = <<"a", "u", "d", "i", "o", "/", "o", "g", "g">>

\* C9: a received message without media makes no call but the completion
\* call, at most once, with the invitation prompt.
C9_TextOnlyCallsStyleOnly ==
  \A r \in Requests :
    LET q == req[r]
    IN  (q.pc # "idle" /\ q.msg.NumMedia = 0) =>
          /\ Made(q) \subseteq {"iara"}
          /\ Count(q, "iara") + Cardinality(Awaited(q)) <= 1
          /\ q.branch = "text"
          /\ q.prompt = AssembledText(q)
          /\ q.filename = 0
          /\ RecordsOf(r) = {}

\* A text message answered after its completion call.
C9_Witness ==
  \E r \in Requests :
    /\ req[r].pc = "responded"
    /\ req[r].msg.NumMedia = 0
    /\ req[r].msg.MediaContentType0 = ImagePrefix \o <<"j", "p", "e", "g">>
    /\ "iara" \in Ops(req[r])

\* C10: every request that was received is eventually answered, exactly
\* once, given that every pending call returns or fails.
C10_EveryRequestAnswered ==
  \A r \in Requests :
    (req[r].pc # "idle") ~> (req[r].pc = "responded" /\ req[r].responses = 1)

\* A call after the download failed: the recognition call threw, a
\* registration step failed or had no token, or the completion call failed.
LaterFailure(q) ==
  \/ "error" \in Results(q, "cv")
  \/ "notoken" \in Results(q, "register")
  \/ RegistrationStepFailed(q)
  \/ Results(q, "iara") \cap {"error", "nonstring"} # {}

\* C11: a request is answered with the generic apology only if its download
\* threw; a request whose recognition call, registration step or completion
\* call failed is answered with the assembled text of its branch through the
\* style pass, never with the apology.
C11_OnlyFetchFailureApologises ==
  \A r \in Requests :
    LET q == req[r]
    IN  /\ (q.pc = "responded" /\ q.reply = ApologyText) =>
             "error" \in Results(q, "get") \cup Results(q, "pipe")
        /\ (q.pc = "responded" /\ LaterFailure(q)) =>
             /\ q.reply # ApologyText
             /\ q.branch \in {"text", "nocand", "full"}
             /\ q.prompt = AssembledText(q)
             /\ ThroughStylePass(q.reply, q.prompt)

\* A request whose attach call and completion call both failed, answered.
C11_Witness ==
  \E r \in Requests :
    /\ req[r].pc = "responded"
    /\ "error" \in Results(req[r], "attach")
    /\ "error" \in Results(req[r], "iara")
    /\ req[r].reply # ApologyText

Holds(text, piece) == \E i \in DOMAIN text : text[i] = piece

UrlBase == "https://www.inaturalist.org/observations/"

OfferText ==
  "\n\nSe quiser, posso registrar como observacao no iNaturalist quando voce desejar."

\* Both steps of the registration succeeded.
Registered(q) == "ok" \in Results(q, "create") /\ "ok" \in Results(q, "attach")

\* C12: the text assembled for an image request with candidates holds the
\* record's URL exactly when the create and the attach call both succeeded,
\* and the offer to register later exactly when they did not; the URL is the
\* last thing in the text and is that of the request's record, which is for
\* the top candidate's taxon.  With two candidates scored 0.91 and 0.60, the
\* first with an id, registration is attempted once, for the first, and once
\* it succeeded the text is the primary line, the secondary line and the
\* reference.
C12_UrlIffRegistered ==
  \A r \in Requests :
    LET q == req[r]
        s == q.suggestions
        n == Len(q.prompt)
    IN  /\ q.branch = "full" =>
             /\ Holds(q.prompt, UrlBase) <=> Registered(q)
             /\ Holds(q.prompt, OfferText) <=> ~Registered(q)
             /\ ~Registered(q) => q.prompt[n] = OfferText
             /\ Registered(q) =>
                  /\ n >= 3
                  /\ q.prompt[n - 2] = "\n\nRegistrei como observacao no iNaturalist: "
                  /\ q.prompt[n - 1] = UrlBase
                  /\ \E o \in RecordsOf(r) :
                       /\ q.prompt[n] = ToString(o.id)
                       /\ o.photo
                       /\ o.taxon_id = s[1].taxon.id
        /\ ( /\ "cv" \in Ops(q)
             /\ Len(s) = 2
             /\ "score" \in DOMAIN s[1] /\ s[1].score = 910
             /\ "score" \in DOMAIN s[2] /\ s[2].score = 600
             /\ "id" \in DOMAIN s[1].taxon ) =>
             /\ Count(q, "register") = 1
             /\ q.taxon_id = s[1].taxon.id
             /\ Registered(q) =>
                  q.prompt =
                    <<"Minha sugestao e: ">> \o formatTaxon(s[1].taxon)
                      \o <<". (confianca ~", "91", "%)", "\nOutra possibilidade: ">>
                      \o formatTaxon(s[2].taxon)
                      \o <<" (~", "60", "%).",
                           "\n\nRegistrei como observacao no iNaturalist: ",
                           UrlBase, ToString(q.observationId)>>

\* Puma concolor at 0.91 and Bidens pilosa at 0.60, registered and answered.
C12_Witness ==
  \E r \in Requests :
    LET q == req[r]
    IN  /\ q.pc = "responded"
        /\ Registered(q)
        /\ Len(q.suggestions) = 2
        /\ q.suggestions[1] = [taxon |-> [id |-> 7, name |-> "Puma concolor",
                                          preferred_common_name |-> "onca-parda"],
                               score |-> 910]
        /\ q.suggestions[2] = [taxon |-> [id |-> 9, name |-> "Bidens pilosa"], score |-> 600]
        /\ Holds(q.prompt, "101")

SecondaryLead == "\nOutra possibilidade: "

\* (score * 100).toFixed(0) of the scores the service may return.
PercentText(score) ==
  CASE score = 600 -> "60"
    [] score = 850 -> "85"
    [] score = 910 -> "91"
    [] OTHER -> "0"

\* The text after the primary line, up to the registration tail.
AfterPrimary(q) ==
  LET p == 1 + Len(formatTaxon(q.suggestions[1].taxon)) + 3
      tail == IF Registered(q) THEN 3 ELSE 1
  IN  SubSeq(q.prompt, p + 1, Len(q.prompt) - tail)

\* C13 as stated: with two or more candidates the assembled text has a
\* secondary line, whatever the second candidate's score.
C13_SecondaryLineAlways ==
  \A r \in Requests :
    (req[r].branch = "full" /\ Len(req[r].suggestions) >= 2) =>
      Holds(req[r].prompt, SecondaryLead)

\* C13 amended: the assembled text has a secondary line exactly when there
\* is a second candidate and it carries a score; the line then names the
\* second candidate as the primary line names the first (common name with
\* the scientific name in parentheses, or the scientific name alone) with
\* its rounded percentage, and without a score nothing stands between the
\* primary line and the registration tail.
C13_SecondaryLineIffScored ==
  \A r \in Requests :
    LET q == req[r]
        s == q.suggestions
    IN  q.branch = "full" =>
          /\ Holds(q.prompt, SecondaryLead) <=> (Len(s) >= 2 /\ "score" \in DOMAIN s[2])
          /\ (Len(s) >= 2 /\ "score" \in DOMAIN s[2]) =>
               AfterPrimary(q) =
                 <<SecondaryLead>> \o formatTaxon(s[2].taxon)
                   \o <<" (~", PercentText(s[2].score), "%).">>
          /\ ~(Len(s) >= 2 /\ "score" \in DOMAIN s[2]) => AfterPrimary(q) = <<>>

\* A second candidate with a common name and a score, in the text.
C13_Witness ==
  \E r \in Requests :
    LET q == req[r]
    IN  /\ q.branch = "full"
        /\ Len(q.suggestions) = 2
        /\ q.suggestions[2] = [taxon |-> [id |-> 7, name |-> "Puma concolor",
                                          preferred_common_name |-> "onca-parda"],
                               score |-> 850]
        /\ Holds(q.prompt, SecondaryLead)
        /\ Holds(q.prompt, "onca-parda")

Occurrences(list, c) == Cardinality({ i \in DOMAIN list : list[i] = c })

\* The score an entry is ordered by: its score, 0 when it has none.
OrderingScore(c) == IF "score" \in DOMAIN c THEN c.score ELSE 0

\* C14: whatever list the recognition service answers with, the ranker's
\* output holds the same entries the same number of times, and no entry
\* comes before one of a greater score, a missing score counting as 0.
C14_RankedIsSortedPermutation ==
  \A r \in Requests :
    LET q == req[r]
        raw == q.results
        s == q.suggestions
    IN  "ok" \in Results(q, "cv") =>
          /\ Len(s) = Len(raw)
          /\ \A i \in DOMAIN raw : Occurrences(s, raw[i]) = Occurrences(raw, raw[i])
          /\ \A i, j \in DOMAIN s : i < j => OrderingScore(s[i]) >= OrderingScore(s[j])

\* An answer whose first entry has no score and whose second scores 0.60:
\* the ranker swapped them.
C14_Witness ==
  \E r \in Requests :
    LET q == req[r]
    IN  /\ "ok" \in Results(q, "cv")
        /\ Len(q.results) = 2
        /\ "score" \notin DOMAIN q.results[1]
        /\ "score" \in DOMAIN q.results[2] /\ q.results[2].score = 600
        /\ q.suggestions[1] = q.results[2]
        /\ q.suggestions[2] = q.results[1]

\* C15: every answered image request whose download succeeded has called
\* fs.unlink on its temp file exactly once, whatever path it took.
C15_TempFileUnlinkedOnce ==
  \A r \in Requests :
    (req[r].pc = "responded" /\ "ok" \in Results(req[r], "pipe")) =>
      Count(req[r], "unlink") = 1

\* C16: the attach call is made only after the create call of the same
\* request succeeded with an id, and the photo goes to the record of that
\* id; after a create call that threw or answered without an id, no attach
\* call is made and the registration ends as a failure (no id, no URL).
C16_AttachOnlyAfterCreate ==
  \A r \in Requests :
    LET q == req[r]
    IN  /\ "attach" \in Made(q) =>
             /\ Results(q, "create") = {"ok"}
             /\ q.observationId # 0
             /\ \E o \in RecordsOf(r) : o.id = q.observationId
        /\ \A i \in DOMAIN q.calls :
             q.calls[i].op = "attach" =>
               \E j \in 1..(i - 1) : q.calls[j] = [op |-> "create", res |-> "ok"]
        /\ Results(q, "create") \cap {"error", "noid"} # {} =>
             /\ "attach" \notin Made(q)
             /\ q.observationId = 0
             /\ q.obsUrl = <<>>
             /\ RecordsOf(r) = {}
        /\ "ok" \in Results(q, "attach") =>
             \E o \in RecordsOf(r) : o.id = q.observationId /\ o.photo
        /\ \A o \in records : o.photo => "ok" \in Results(req[o.request], "attach")

\* The create call answered without an id, and the request was answered.
C16_Witness ==
  \E r \in Requests :
    /\ "noid" \in Results(req[r], "create")
    /\ req[r].pc = "responded"

\* C17: after an attach call that failed, the record the create call made is
\* still on the service, without a photo; the request makes no further call
\* to the registration service; and it keeps no URL, its assembled text
\* ending with the offer to register later.
C17_NoRollbackAfterAttachFailure ==
  \A r \in Requests :
    LET q == req[r]
    IN  "error" \in Results(q, "attach") =>
          /\ \E o \in RecordsOf(r) :
               o.id = q.observationId /\ ~o.photo /\ o.taxon_id = q.taxon_id
          /\ Count(q, "create") = 1 /\ Count(q, "attach") = 1
          /\ Made(q) \subseteq {"get", "pipe", "cv", "register", "create", "attach", "iara", "unlink"}
          /\ q.obsUrl = <<>>
          /\ q.branch = "full"
          /\ ~Holds(q.prompt, UrlBase)
          /\ q.prompt[Len(q.prompt)] = OfferText

\* The request was answered while its photoless record exists.
C17_Witness ==
  \E r \in Requests :
    /\ "error" \in Results(req[r], "attach")
    /\ req[r].pc = "responded"
    /\ \E o \in RecordsOf(r) : ~o.photo
    /\ Holds(req[r].reply, OfferText)

\* C18: without the registration credential no request makes a create or an
\* attach call and the service holds no record; an image request whose top
\* candidate qualifies still assembles the identification text, which begins
\* with the primary line and ends with the offer to register later, and is
\* answered through the style pass, never with the apology.
C18_NoTokenDisablesRegistration ==
  ~INAT_TOKEN =>
    /\ records = {}
    /\ \A r \in Requests :
         LET q == req[r]
         IN  /\ Made(q) \cap {"create", "attach"} = {}
             /\ q.pc \notin {"await_create", "await_attach"}
             /\ q.observationId = NoRequest.observationId
             /\ ("cv" \in Made(q) /\ TopQualifies(q.suggestions)) =>
                  /\ q.branch = "full"
                  /\ q.obsUrl = <<>>
                  /\ Len(q.prompt) >= 2
                  /\ q.prompt[1] = "Minha sugestao e: "
                  /\ q.prompt[Len(q.prompt)] = OfferText
                  /\ ~Holds(q.prompt, UrlBase)
                  /\ q.pc = "responded" =>
                       /\ q.reply # ApologyText
                       /\ ThroughStylePass(q.reply, q.prompt)

\* A qualifying image request answered with the offer while the credential
\* is absent.
C18_Witness ==
  /\ ~INAT_TOKEN
  /\ \E r \in Requests :
       /\ "notoken" \in Results(req[r], "register")
       /\ TopQualifies(req[r].suggestions)
       /\ req[r].pc = "responded"
       /\ Holds(req[r].reply, OfferText)

\* C19: with requests in flight together, no two of them were given the same
\* temp-file name; every file holds the image of the request it was named
\* for; every recognition and attach call sent the image of the request that
\* made it; and a request that has its local path and has not unlinked it
\* still finds its own file there, whatever the other requests did.
C19_OwnTempFile ==
  /\ \A r1, r2 \in Requests :
       (r1 # r2 /\ req[r1].pc # "idle" /\ req[r2].pc # "idle"
          /\ req[r1].msg.NumMedia > 0 /\ req[r2].msg.NumMedia > 0)
         => req[r1].filename # req[r2].filename
  /\ \A f \in files : f.image \in Requests /\ req[f.image].filename = f.name
  /\ \A r \in Requests :
       /\ \A s \in req[r].sent : s.image = r
       /\ (req[r].localPath # 0 /\ Count(req[r], "unlink") = 0)
            => [name |-> req[r].localPath, image |-> r] \in files

\* A request received second has been answered and has unlinked its file
\* while the one received first still awaits its attach call, its file in
\* place and its own image sent to both services.
C19_Witness ==
  \E r1, r2 \in Requests :
    /\ r1 # r2
    /\ req[r1].filename < req[r2].filename
    /\ req[r1].pc = "await_attach"
    /\ req[r1].sent = { [op |-> "cv", image |-> r1], [op |-> "attach", image |-> r1] }
    /\ [name |-> req[r1].localPath, image |-> r1] \in files
    /\ req[r2].pc = "responded"
    /\ Count(req[r2], "unlink") = 1
    /\ \A f \in files : f.name # req[r2].localPath

====
